---- MODULE Spec2Model ----
(***************************************************************************)
(* calc-with-memory (src/src/main.rs): a line-oriented calculator with     *)
(* named memory slots.                                                     *)
(*                                                                         *)
(* Strings are sequences of characters.  A character is a one-character   *)
(* string; a character that has no TLA+ string form (U+000B and the        *)
(* characters beyond ASCII) is written by its code point, "U+00A0".        *)
(*                                                                         *)
(* An f64 is a pair <<n, d>>: d >= 1 is the finite value n/d in lowest     *)
(* terms with d a power of two (+0.0 is <<0, 1>>), <<0, -1>> is -0.0,      *)
(* <<1, 0>> and <<-1, 0>> are the infinities and <<0, 0>> is NaN.  The     *)
(* pairs are the f64 values whose numerator and denominator are within     *)
(* the integers of the model checker (below 2^31, so the 53 bits of an     *)
(* f64 hold them exactly).  Sums, differences and products of such         *)
(* values are computed exactly, as the hardware does.  An operation        *)
(* whose f64 result is a rounded one (1.0 / 3.0, the literal 0.1) has no   *)
(* value here: F64Exact is defined on the exact results alone, so the      *)
(* model never holds a value that is not the code's.                       *)
(*                                                                         *)
(* A panic (unwrap, assert_eq!, unreachable!, index out of bounds) is a    *)
(* result with ok = FALSE that every caller passes on, as unwinding        *)
(* does.  dbg! writes to stderr only and is not modelled.                  *)
(*                                                                         *)
(* State of main: memories and prev_result; pc, the position in main       *)
(* ("read" at the top of the loop, "loop_end" at the end of the loop body, *)
(* "exited" after the break, "eof" when stdin ended, "panicked" when the   *)
(* process died of a panic); line, the local of the current iteration;     *)
(* stdout, what the current iteration wrote to standard output (before     *)
(* the first iteration, the banner); nread, the number of lines read.      *)
(* etokens, ememory, eresult, edepth and edone hold the arguments and      *)
(* result of eval_expression where it is applied on its own; eexpect is    *)
(* the value a generated nested expression was built to have.              *)
(***************************************************************************)
EXTENDS Integers, Sequences, FiniteSets

VARIABLES memories, prev_result, pc, line, stdout, nread,
          etokens, ememory, eresult, edepth, edone, eexpect

vars == <<memories, prev_result, pc, line, stdout, nread,
          etokens, ememory, eresult, edepth, edone, eexpect>>

svars == <<memories, prev_result, pc, line, stdout, nread>>
evars == <<etokens, ememory, eresult, edepth, edone, eexpect>>

----------------------------------------------------------------------------
(* Bounds *)

\* lines read in one session
MaxLines == 3
\* whitespace-separated pieces per input line
MaxPieces == 3
\* tokens per expression handed to eval_expression directly
MaxTokens == 5
\* parenthesis nesting depth of the generated nested expressions
MaxDepth == 10

----------------------------------------------------------------------------
(* f64 *)

Zero == <<0, 1>>
NegZero == <<0, -1>>
PosInf == <<1, 0>>
NegInf == <<-1, 0>>
NaN == <<0, 0>>

F64Int(n) == <<n, 1>>

IsNaN(v) == v = NaN
IsInf(v) == v[2] = 0 /\ v[1] # 0
IsZero(v) == v[1] = 0 /\ v[2] # 0
SignBit(v) == v[1] < 0 \/ v = NegZero
Num(v) == v[1]
Den(v) == IF v[2] < 0 THEN 1 ELSE v[2]
Abs(n) == IF n < 0 THEN -n ELSE n

RECURSIVE Gcd(_, _)
Gcd(a, b) == IF b = 0 THEN a ELSE Gcd(b, a % b)

\* the finite value n/d (d > 0) in lowest terms; an exact zero is +0.0
Norm(n, d) ==
    IF n = 0 THEN Zero
    ELSE LET g == Gcd(Abs(n), d) IN <<n \div g, d \div g>>

RECURSIVE IsPow2(_)
IsPow2(d) == d = 1 \/ (d > 1 /\ d % 2 = 0 /\ IsPow2(d \div 2))

\* the f64 nearest to the rational q, where q is itself an f64: a
\* quotient that the hardware would round has no value
F64Exact(q) == CASE IsPow2(q[2]) -> q

SignedZero(neg) == IF neg THEN NegZero ELSE Zero
SignedInf(neg) == IF neg THEN NegInf ELSE PosInf

\* unary minus on f64 (main.rs:140, -prev_result)
FNeg(v) ==
    IF IsNaN(v) THEN NaN
    ELSE IF IsZero(v) THEN SignedZero(v = Zero)
    ELSE <<-v[1], v[2]>>

\* f64 addition (main.rs:46 and 176)
FAdd(a, b) ==
    IF IsNaN(a) \/ IsNaN(b) THEN NaN
    ELSE IF IsInf(a) /\ IsInf(b) THEN (IF a = b THEN a ELSE NaN)
    ELSE IF IsInf(a) THEN a
    ELSE IF IsInf(b) THEN b
    ELSE IF IsZero(a) /\ IsZero(b) THEN SignedZero(a = NegZero /\ b = NegZero)
    ELSE IF IsZero(a) THEN b
    ELSE IF IsZero(b) THEN a
    ELSE Norm(Num(a) * Den(b) + Num(b) * Den(a), Den(a) * Den(b))

\* f64 subtraction (main.rs:181)
FSub(a, b) == FAdd(a, FNeg(b))

\* f64 multiplication (main.rs:199)
FMul(a, b) ==
    IF IsNaN(a) \/ IsNaN(b) THEN NaN
    ELSE IF (IsInf(a) /\ IsZero(b)) \/ (IsZero(a) /\ IsInf(b)) THEN NaN
    ELSE IF IsInf(a) \/ IsInf(b) THEN SignedInf(SignBit(a) # SignBit(b))
    ELSE IF IsZero(a) \/ IsZero(b) THEN SignedZero(SignBit(a) # SignBit(b))
    ELSE Norm(Num(a) * Num(b), Den(a) * Den(b))

\* f64 division (main.rs:204): a zero divisor gives an infinity or NaN;
\* a finite quotient is the exact one where that is an f64
FDiv(a, b) ==
    IF IsNaN(a) \/ IsNaN(b) THEN NaN
    ELSE IF (IsInf(a) /\ IsInf(b)) \/ (IsZero(a) /\ IsZero(b)) THEN NaN
    ELSE IF IsInf(a) \/ IsZero(b) THEN SignedInf(SignBit(a) # SignBit(b))
    ELSE IF IsInf(b) \/ IsZero(a) THEN SignedZero(SignBit(a) # SignBit(b))
    ELSE LET n == Num(a) * Den(b)
             d == Den(a) * Num(b)
         IN F64Exact(IF d < 0 THEN Norm(-n, -d) ELSE Norm(n, d))

----------------------------------------------------------------------------
(* Strings *)

Digits == <<"0", "1", "2", "3", "4", "5", "6", "7", "8", "9">>

IsDigit(c) == \E i \in 1..10 : Digits[i] = c
DigitVal(c) == (CHOOSE i \in 1..10 : Digits[i] = c) - 1

\* char::is_whitespace: the characters with the Unicode property
\* White_Space
IsWhitespace(c) ==
    c \in { " ", "\t", "\n", "U+000B", "\f", "\r", "U+0085", "U+00A0",
            "U+1680", "U+2000", "U+2001", "U+2002", "U+2003", "U+2004",
            "U+2005", "U+2006", "U+2007", "U+2008", "U+2009", "U+200A",
            "U+2028", "U+2029", "U+202F", "U+205F", "U+3000" }

RECURSIVE DigitsVal(_)
DigitsVal(s) ==
    IF s = <<>> THEN 0
    ELSE 10 * DigitsVal(SubSeq(s, 1, Len(s) - 1)) + DigitVal(s[Len(s)])

\* zero or more decimal digits
AllDigits(s) == \A i \in 1..Len(s) : IsDigit(s[i])

Upper == <<"A", "E", "F", "I", "N", "T", "Y">>
Lower == <<"a", "e", "f", "i", "n", "t", "y">>

\* ASCII lower case of the letters a float literal can hold
ToLower(c) ==
    IF \E i \in 1..7 : Upper[i] = c
    THEN Lower[CHOOSE i \in 1..7 : Upper[i] = c]
    ELSE c

LowerStr(s) == [i \in 1..Len(s) |-> ToLower(s[i])]

HasSign(s) == s # <<>> /\ s[1] \in {"+", "-"}
Unsigned(s) == IF HasSign(s) THEN Tail(s) ELSE s

\* the position of the first character of s in set cs, Len(s) + 1 if none
FirstOf(s, cs) ==
    IF \E i \in 1..Len(s) : s[i] \in cs
    THEN CHOOSE i \in 1..Len(s) : s[i] \in cs /\ \A j \in 1..(i - 1) : s[j] \notin cs
    ELSE Len(s) + 1

\* the parts of an unsigned literal: digits before the point, digits
\* after it, and the exponent with its e, each possibly empty
Mantissa(u) == SubSeq(u, 1, FirstOf(u, {"e", "E"}) - 1)
ExpPart(u) == SubSeq(u, FirstOf(u, {"e", "E"}), Len(u))
IntDigits(u) == SubSeq(Mantissa(u), 1, FirstOf(Mantissa(u), {"."}) - 1)
FracDigits(u) ==
    SubSeq(Mantissa(u), FirstOf(Mantissa(u), {"."}) + 1, Len(Mantissa(u)))

\* Number ::= ( Digit+ | Digit+ '.' Digit* | Digit* '.' Digit+ ) Exp?
\* Exp    ::= 'e' Sign? Digit+
IsNumber(u) ==
    /\ AllDigits(IntDigits(u))
    /\ AllDigits(FracDigits(u))
    /\ Len(IntDigits(u)) + Len(FracDigits(u)) >= 1
    /\ ExpPart(u) # <<>> =>
          /\ Unsigned(Tail(ExpPart(u))) # <<>>
          /\ AllDigits(Unsigned(Tail(ExpPart(u))))

RECURSIVE Pow10(_)
Pow10(k) == IF k = 0 THEN 1 ELSE 10 * Pow10(k - 1)

\* the value of an unsigned Number: its digits times a power of ten
NumberValue(u) ==
    LET m == DigitsVal(IntDigits(u) \o FracDigits(u))
        x == IF ExpPart(u) = <<>> THEN 0
             ELSE LET t == Tail(ExpPart(u))
                  IN IF HasSign(t) /\ t[1] = "-"
                     THEN -DigitsVal(Unsigned(t)) ELSE DigitsVal(Unsigned(t))
        e == x - Len(FracDigits(u))
    IN IF m = 0 THEN Zero
       ELSE IF e >= 0 THEN F64Exact(<<m * Pow10(e), 1>>)
       ELSE F64Exact(Norm(m, Pow10(-e)))

\* str::parse::<f64>:
\* Float ::= Sign? ( 'inf' | 'infinity' | 'nan' | Number ), in any case
ParseF64(s) ==
    LET u == Unsigned(s)
        w == LowerStr(u)
        neg == HasSign(s) /\ s[1] = "-"
    IN IF w \in { <<"i", "n", "f">>, <<"i", "n", "f", "i", "n", "i", "t", "y">> }
       THEN [ok |-> TRUE, value |-> SignedInf(neg)]
       ELSE IF w = <<"n", "a", "n">> THEN [ok |-> TRUE, value |-> NaN]
       ELSE IF IsNumber(u)
       THEN [ok |-> TRUE,
             value |-> IF neg THEN FNeg(NumberValue(u)) ELSE NumberValue(u)]
       ELSE [ok |-> FALSE, value |-> Zero]

RECURSIVE NatStr(_)
NatStr(n) ==
    IF n < 10 THEN <<Digits[n + 1]>>
    ELSE NatStr(n \div 10) \o <<Digits[(n % 10) + 1]>>

RECURSIVE Log2(_)
Log2(d) == IF d = 1 THEN 0 ELSE 1 + Log2(d \div 2)

RECURSIVE Pow5(_)
Pow5(k) == IF k = 0 THEN 1 ELSE 5 * Pow5(k - 1)

RECURSIVE Zeros(_)
Zeros(k) == IF k <= 0 THEN <<>> ELSE <<"0">> \o Zeros(k - 1)

\* the decimal expansion of n / 2^k (n > 0, k > 0): n * 5^k with the
\* point k digits from the right
DyadicStr(n, k) ==
    LET ds == NatStr(n * Pow5(k))
        padded == Zeros(k + 1 - Len(ds)) \o ds
    IN SubSeq(padded, 1, Len(padded) - k) \o <<".">>
         \o SubSeq(padded, Len(padded) - k + 1, Len(padded))

\* Display for f64 ("{}"): the shortest decimal that reads back as the
\* value, never in exponent form
FmtF64(v) ==
    CASE IsNaN(v) -> <<"N", "a", "N">>
      [] v = PosInf -> <<"i", "n", "f">>
      [] v = NegInf -> <<"-", "i", "n", "f">>
      [] v = NegZero -> <<"-", "0">>
      [] v[2] = 1 /\ v[1] >= 0 -> NatStr(v[1])
      [] v[2] = 1 /\ v[1] < 0 -> <<"-">> \o NatStr(-v[1])
      [] v[2] > 1 /\ v[1] > 0 -> DyadicStr(v[1], Log2(v[2]))
      [] v[2] > 1 /\ v[1] < 0 -> <<"-">> \o DyadicStr(-v[1], Log2(v[2]))

----------------------------------------------------------------------------
(* Memory *)

\* Memory::new: the map slots, from slot name to value, is empty
Memory_new == [n \in {} |-> Zero]

\* Memory::get with the lookup always missing
Memory_get_Miss(memory, slot_name) == Zero

\* Memory::get: the stored value, 0.0 for a slot that does not exist
Memory_get(memory, slot_name) ==
    IF slot_name \in DOMAIN memory THEN memory[slot_name] ELSE Zero

\* Memory::add with an occupied slot overwritten instead of added to
Memory_add_Overwrite(memory, slot_name, prev) ==
    [memory |-> [n \in DOMAIN memory \cup {slot_name} |->
                     IF n = slot_name THEN prev ELSE memory[n]],
     value |-> prev]

\* Memory::add: the store after the call and the value returned
Memory_add(memory, slot_name, prev) ==
    IF slot_name \in DOMAIN memory
    THEN LET v == FAdd(memory[slot_name], prev)
         IN [memory |-> [memory EXCEPT ![slot_name] = v], value |-> v]
    ELSE [memory |-> [n \in DOMAIN memory \cup {slot_name} |->
                          IF n = slot_name THEN prev ELSE memory[n]],
          value |-> prev]

----------------------------------------------------------------------------
(* Token *)

Tok(t) == [type |-> t, name |-> <<>>, value |-> Zero]
Number(v) == [type |-> "Number", name |-> <<>>, value |-> v]
MemoryRef(n) == [type |-> "MemoryRef", name |-> n, value |-> Zero]
MemoryPlus(n) == [type |-> "MemoryPlus", name |-> n, value |-> Zero]
MemoryMinus(n) == [type |-> "MemoryMinus", name |-> n, value |-> Zero]
Plus == Tok("Plus")
Minus == Tok("Minus")
Asterisk == Tok("Asterisk")
Slash == Tok("Slash")
LParen == Tok("LParen")
RParen == Tok("RParen")

StartsWithMem(value) ==
    Len(value) >= 3 /\ SubSeq(value, 1, 3) = <<"m", "e", "m">>

\* String::pop: drops the last character, if there is one
Pop(s) == IF s = <<>> THEN s ELSE SubSeq(s, 1, Len(s) - 1)

\* Token::parse: [ok, token]; ok = FALSE is the panic of unwrap() on a
\* piece that is no operator, no mem word and no number
Token_parse(value) ==
    IF value = <<"+">> THEN [ok |-> TRUE, token |-> Plus]
    ELSE IF value = <<"-">> THEN [ok |-> TRUE, token |-> Minus]
    ELSE IF value = <<"*">> THEN [ok |-> TRUE, token |-> Asterisk]
    ELSE IF value = <<"/">> THEN [ok |-> TRUE, token |-> Slash]
    ELSE IF value = <<"(">> THEN [ok |-> TRUE, token |-> LParen]
    ELSE IF value = <<")">> THEN [ok |-> TRUE, token |-> RParen]
    ELSE IF StartsWithMem(value)
    THEN LET memory_name == SubSeq(value, 4, Len(value))
         IN IF value[Len(value)] = "+"
            THEN [ok |-> TRUE, token |-> MemoryPlus(Pop(memory_name))]
            ELSE IF value[Len(value)] = "-"
            THEN [ok |-> TRUE, token |-> MemoryMinus(Pop(memory_name))]
            ELSE [ok |-> TRUE, token |-> MemoryRef(memory_name)]
    ELSE LET r == ParseF64(value)
         IN [ok |-> r.ok, token |-> Number(r.value)]

\* str::split(char::is_whitespace): the pieces between whitespace
\* characters, one piece more than there are whitespace characters
RECURSIVE StrSplit(_)
StrSplit(text) ==
    IF \E i \in 1..Len(text) : IsWhitespace(text[i])
    THEN LET i == CHOOSE k \in 1..Len(text) :
                      /\ IsWhitespace(text[k])
                      /\ \A j \in 1..(k - 1) : ~IsWhitespace(text[j])
         IN <<SubSeq(text, 1, i - 1)>> \o StrSplit(SubSeq(text, i + 1, Len(text)))
    ELSE <<text>>

\* Token::split: [ok, tokens]; ok = FALSE when Token::parse panics on a piece
Token_split(text) ==
    LET pieces == StrSplit(text)
        parsed == [i \in 1..Len(pieces) |-> Token_parse(pieces[i])]
    IN IF \A i \in 1..Len(pieces) : parsed[i].ok
       THEN [ok |-> TRUE, tokens |-> [i \in 1..Len(pieces) |-> parsed[i].token]]
       ELSE [ok |-> FALSE, tokens |-> <<>>]

----------------------------------------------------------------------------
(* Expression evaluator.  index counts from 0 as in the source, so the     *)
(* source's tokens[index] is tokens[index + 1] here.  Every function       *)
(* returns [ok, value, index, panic]: (value, index) is the source's       *)
(* returned pair; ok = FALSE is a panic, named in panic.                   *)

Ok(v, i) == [ok |-> TRUE, value |-> v, index |-> i, panic |-> ""]
Panic(why) == [ok |-> FALSE, value |-> Zero, index |-> 0, panic |-> why]

\* eval_token (never called by the program)
eval_token(token, memory) ==
    CASE token.type = "Number" -> Ok(token.value, 0)
      [] token.type = "MemoryRef" -> Ok(Memory_get(memory, token.name), 0)
      [] OTHER -> Panic("unreachable")

RECURSIVE eval_additive_expression(_, _, _)
RECURSIVE additive_loop(_, _, _, _)
RECURSIVE eval_multiplicative_expression(_, _, _)
RECURSIVE multiplicative_loop(_, _, _, _)
RECURSIVE eval_primary_expression(_, _, _)

\* eval_primary_expression returning the position of the closing
\* parenthesis instead of the one after it
eval_primary_expression_NoAdvance(tokens, index, memory) ==
    IF index >= Len(tokens) THEN Panic("index out of bounds")
    ELSE LET first_token == tokens[index + 1] IN
      CASE first_token.type = "LParen" ->
             LET r == eval_additive_expression(tokens, index + 1, memory) IN
             IF ~r.ok THEN r
             ELSE IF r.index >= Len(tokens) THEN Panic("index out of bounds")
             ELSE IF tokens[r.index + 1] # RParen THEN Panic("assert_eq RParen")
             ELSE Ok(r.value, r.index)
        [] first_token.type = "Number" -> Ok(first_token.value, index + 1)
        [] first_token.type = "MemoryRef" ->
             Ok(Memory_get(memory, first_token.name), index + 1)
        [] OTHER -> Panic("unreachable")

\* eval_primary_expression: a parenthesised group, a number or a memory
\* reference starting at tokens[index]
eval_primary_expression(tokens, index, memory) ==
    IF index >= Len(tokens) THEN Panic("index out of bounds")
    ELSE LET first_token == tokens[index + 1] IN
      CASE first_token.type = "LParen" ->
             LET r == eval_additive_expression(tokens, index + 1, memory) IN
             IF ~r.ok THEN r
             ELSE IF r.index >= Len(tokens) THEN Panic("index out of bounds")
             ELSE IF tokens[r.index + 1] # RParen THEN Panic("assert_eq RParen")
             ELSE Ok(r.value, r.index + 1)
        [] first_token.type = "Number" -> Ok(first_token.value, index + 1)
        [] first_token.type = "MemoryRef" ->
             Ok(Memory_get(memory, first_token.name), index + 1)
        [] OTHER -> Panic("unreachable")

\* the while loop of eval_multiplicative_expression, entered with the
\* running result and index; the operand of * and / is evaluated from
\* index, the position of the operator itself
multiplicative_loop(tokens, memory, result, index) ==
    IF index < Len(tokens)
    THEN CASE tokens[index + 1].type = "Asterisk" ->
                LET r == eval_primary_expression(tokens, index, memory) IN
                IF ~r.ok THEN r
                ELSE multiplicative_loop(tokens, memory, FMul(result, r.value), r.index)
           [] tokens[index + 1].type = "Slash" ->
                LET r == eval_primary_expression(tokens, index, memory) IN
                IF ~r.ok THEN r
                ELSE multiplicative_loop(tokens, memory, FDiv(result, r.value), r.index)
           [] OTHER -> Ok(result, index)
    ELSE Ok(result, index)

\* eval_multiplicative_expression
eval_multiplicative_expression(tokens, index, memory) ==
    LET r == eval_primary_expression(tokens, index, memory) IN
    IF ~r.ok THEN r
    ELSE multiplicative_loop(tokens, memory, r.value, r.index)

\* the while loop of eval_additive_expression
additive_loop(tokens, memory, result, index) ==
    IF index < Len(tokens)
    THEN CASE tokens[index + 1].type = "Plus" ->
                LET r == eval_multiplicative_expression(tokens, index + 1, memory) IN
                IF ~r.ok THEN r
                ELSE additive_loop(tokens, memory, FAdd(result, r.value), r.index)
           [] tokens[index + 1].type = "Minus" ->
                LET r == eval_multiplicative_expression(tokens, index + 1, memory) IN
                IF ~r.ok THEN r
                ELSE additive_loop(tokens, memory, FSub(result, r.value), r.index)
           [] OTHER -> Ok(result, index)
    ELSE Ok(result, index)

\* eval_additive_expression
eval_additive_expression(tokens, index, memory) ==
    LET r == eval_multiplicative_expression(tokens, index, memory) IN
    IF ~r.ok THEN r
    ELSE additive_loop(tokens, memory, r.value, r.index)

\* eval_expression: the whole token sequence must be consumed
eval_expression(tokens, memory) ==
    LET r == eval_additive_expression(tokens, 0, memory) IN
    IF ~r.ok THEN r
    ELSE IF Len(tokens) # r.index THEN Panic("assert_eq len")
    ELSE r

\* print_formula_result printing the result without the formula
print_formula_result_Bare(formula, result) == FmtF64(result)

\* print_formula_result: the line written to stdout
equal == <<" ", "e", "q", "u", "a", "l", " ">>
print_formula_result(formula, result) == formula \o equal \o FmtF64(result)

----------------------------------------------------------------------------------------------------------------------------------------
(* Input lines: pieces joined by single spaces.  An empty piece stands for *)
(* a further space, so the lines include leading, trailing and repeated    *)
(* whitespace.                                                             *)

Pieces ==
    { <<>>, <<"1">>, <<"+">>, <<"*">>, <<"(">>, <<")">>,
      <<"m", "e", "m">>, <<"m", "e", "m", "x">>,
      <<"m", "e", "m", "x", "+">>, <<"m", "e", "m", "-">>,
      <<"a", "b", "c">> }

RECURSIVE Join(_)
Join(ps) ==
    IF ps = <<>> THEN <<>>
    ELSE IF Len(ps) = 1 THEN ps[1]
    ELSE ps[1] \o <<" ">> \o Join(Tail(ps))

Lines == { Join(ps) : ps \in UNION { [1..n -> Pieces] : n \in 0..MaxPieces } }

\* Token::split of every input line, computed once
SplitOf == [l \in Lines |-> Token_split(l)]

\* the lines on which Token::split returns
SplitOk == { l \in Lines : l # <<>> /\ SplitOf[l].ok }

----------------------------------------------------------------------------
(* main *)

Banner ==
    <<"P", "l", "e", "a", "s", "e", " ", "i", "n", "p", "u", "t", " ",
    "c", "a", "l", "c", "u", "l", "a", "t", "i", "o", "n", " ", "f", "o",
    "r", "m", "u", "l", "a", " ", "l", "i", "k", "e", " ", "1", " ", "+",
    " ", "2", ",", " ", "2", " ", "-", " ", "1", ",", " ", "3", " ", "*",
    " ", "4", ",", " ", "4", " ", "/", " ", "2">>

Bye == <<"B", "y", "e", "!">>

NotEvaluated == Panic("not evaluated")

\* main.rs:118-120, before the first line is read
Init ==
    /\ memories = Memory_new
    /\ prev_result = Zero
    /\ pc = "read"
    /\ line = <<>>
    /\ stdout = Banner
    /\ nread = 0
    /\ etokens = <<>>
    /\ ememory = Memory_new
    /\ eresult = NotEvaluated
    /\ edepth = 0
    /\ edone = FALSE
    /\ eexpect = Zero

Reading == pc = "read" /\ nread < MaxLines

\* the lines stdin().lines() can yield as Ok to the loop now
Input == IF Reading THEN Lines ELSE {}

\* stdin().lines() ends: the loop and main return
EndOfInput ==
    /\ Reading
    /\ pc' = "eof"
    /\ line' = <<>>
    /\ stdout' = <<>>
    /\ UNCHANGED <<memories, prev_result, nread>>
    /\ UNCHANGED evars

\* main.rs:122: stdin().lines() yields an Err (the bytes read are not
\* UTF-8, or the read fails) and line.unwrap() panics: no line is bound
ReadPanic ==
    /\ Reading
    /\ pc' = "panicked"
    /\ line' = <<>>
    /\ stdout' = <<>>
    /\ UNCHANGED <<memories, prev_result, nread>>
    /\ UNCHANGED evars

\* the empty line handled with continue instead of break
EmptyLine_Continue ==
    /\ Reading
    /\ line' = <<>>
    /\ nread' = nread + 1
    /\ stdout' = Bye
    /\ pc' = "read"
    /\ UNCHANGED <<memories, prev_result>>
    /\ UNCHANGED evars

\* main.rs:123-127: an empty line prints Bye! and leaves the loop
EmptyLine ==
    /\ Reading
    /\ line' = <<>>
    /\ nread' = nread + 1
    /\ stdout' = Bye
    /\ pc' = "exited"
    /\ UNCHANGED <<memories, prev_result>>
    /\ UNCHANGED evars

\* main.rs:129: Token::split panics, the process ends
SplitPanic(l) ==
    /\ Reading
    /\ l # <<>>
    /\ l \notin SplitOk
    /\ line' = l
    /\ nread' = nread + 1
    /\ stdout' = <<>>
    /\ pc' = "panicked"
    /\ UNCHANGED <<memories, prev_result>>
    /\ UNCHANGED evars

\* the MemoryPlus branch also storing its result in prev_result
MemoryPlusLine_SetsPrev(l) ==
    /\ Reading
    /\ l # <<>>
    /\ l \in SplitOk
    /\ LET tokens == SplitOf[l].tokens IN
       /\ tokens[1].type = "MemoryPlus"
       /\ LET r == Memory_add(memories, tokens[1].name, prev_result) IN
          /\ memories' = r.memory
          /\ stdout' = print_formula_result(l, r.value)
          /\ prev_result' = r.value
    /\ line' = l
    /\ nread' = nread + 1
    /\ pc' = "loop_end"
    /\ UNCHANGED evars

\* main.rs:133-137
MemoryPlusLine(l) ==
    /\ Reading
    /\ l # <<>>
    /\ l \in SplitOk
    /\ LET tokens == SplitOf[l].tokens IN
       /\ tokens[1].type = "MemoryPlus"
       /\ LET r == Memory_add(memories, tokens[1].name, prev_result) IN
          /\ memories' = r.memory
          /\ stdout' = print_formula_result(l, r.value)
    /\ line' = l
    /\ nread' = nread + 1
    /\ pc' = "loop_end"
    /\ UNCHANGED prev_result
    /\ UNCHANGED evars

\* main.rs:138-142
MemoryMinusLine(l) ==
    /\ Reading
    /\ l # <<>>
    /\ l \in SplitOk
    /\ LET tokens == SplitOf[l].tokens IN
       /\ tokens[1].type = "MemoryMinus"
       /\ LET r == Memory_add(memories, tokens[1].name, FNeg(prev_result)) IN
          /\ memories' = r.memory
          /\ stdout' = print_formula_result(l, r.value)
    /\ line' = l
    /\ nread' = nread + 1
    /\ pc' = "loop_end"
    /\ UNCHANGED prev_result
    /\ UNCHANGED evars

\* the expression branch also adding its result to the empty-named slot
ExpressionLine_Stores(l) ==
    /\ Reading
    /\ l # <<>>
    /\ l \in SplitOk
    /\ LET tokens == SplitOf[l].tokens IN
       /\ tokens[1].type \notin {"MemoryPlus", "MemoryMinus"}
       /\ LET r == eval_expression(tokens, memories) IN
          /\ r.ok
          /\ stdout' = print_formula_result(l, r.value)
          /\ prev_result' = r.value
          /\ memories' = Memory_add(memories, <<>>, r.value).memory
    /\ line' = l
    /\ nread' = nread + 1
    /\ pc' = "loop_end"
    /\ UNCHANGED evars

\* main.rs:143-147, eval_expression returns
ExpressionLine(l) ==
    /\ Reading
    /\ l # <<>>
    /\ l \in SplitOk
    /\ LET tokens == SplitOf[l].tokens IN
       /\ tokens[1].type \notin {"MemoryPlus", "MemoryMinus"}
       /\ LET r == eval_expression(tokens, memories) IN
          /\ r.ok
          /\ stdout' = print_formula_result(l, r.value)
          /\ prev_result' = r.value
    /\ line' = l
    /\ nread' = nread + 1
    /\ pc' = "loop_end"
    /\ UNCHANGED memories
    /\ UNCHANGED evars

\* main.rs:144, eval_expression panics, the process ends
ExpressionPanic(l) ==
    /\ Reading
    /\ l # <<>>
    /\ l \in SplitOk
    /\ LET tokens == SplitOf[l].tokens IN
       /\ tokens[1].type \notin {"MemoryPlus", "MemoryMinus"}
       /\ ~eval_expression(tokens, memories).ok
    /\ line' = l
    /\ nread' = nread + 1
    /\ stdout' = <<>>
    /\ pc' = "panicked"
    /\ UNCHANGED <<memories, prev_result>>
    /\ UNCHANGED evars

\* main.rs:149: the loop body ends, line and tokens are dropped and the
\* next iteration has written nothing yet
NextIteration ==
    /\ pc = "loop_end"
    /\ pc' = "read"
    /\ line' = <<>>
    /\ stdout' = <<>>
    /\ UNCHANGED <<memories, prev_result, nread>>
    /\ UNCHANGED evars

Next ==
    \/ EndOfInput
    \/ ReadPanic
    \/ EmptyLine
    \/ \E l \in Input : SplitPanic(l)
    \/ \E l \in Input : MemoryPlusLine(l)
    \/ \E l \in Input : MemoryMinusLine(l)
    \/ \E l \in Input : ExpressionLine(l)
    \/ \E l \in Input : ExpressionPanic(l)
    \/ NextIteration

Spec == Init /\ [][Next]_vars

----------------------------------------------------------------------------
(* eval_expression applied on its own *)

Five == F64Int(5)

\* the token sequences handed to eval_expression
TokenAlphabet ==
    { Number(F64Int(2)), Number(F64Int(3)), Number(F64Int(4)), MemoryRef(<<>>),
      Plus, Minus, Asterisk, Slash, LParen, RParen }

TokenSeqs == UNION { [1..n -> TokenAlphabet] : n \in 0..MaxTokens }

\* a store in which the slot with the empty name holds 5
EvalMemory == Memory_add(Memory_new, <<>>, Five).memory

SessionIdle ==
    /\ memories = Memory_new
    /\ prev_result = Zero
    /\ pc = "read"
    /\ line = <<>>
    /\ stdout = Banner
    /\ nread = 0

InitEval ==
    /\ SessionIdle
    /\ etokens \in TokenSeqs
    /\ ememory = EvalMemory
    /\ eresult = NotEvaluated
    /\ edepth = 0
    /\ edone = FALSE
    /\ eexpect = Zero

\* the call eval_expression(&tokens, &memories) of main.rs:144
Evaluate ==
    /\ ~edone
    /\ edone' = TRUE
    /\ eresult' = eval_expression(etokens, ememory)
    /\ UNCHANGED <<etokens, ememory, edepth, eexpect>>
    /\ UNCHANGED svars

NextEval == Evaluate

SpecEval == InitEval /\ [][NextEval]_vars

----------------------------------------------------------------------------
(* Nested parentheses: expressions over numbers, + and - grown one         *)
(* parenthesised group at a time, then evaluated.                          *)

One == F64Int(1)
Two == F64Int(2)

InitNest ==
    /\ SessionIdle
    /\ etokens = <<Number(One)>>
    /\ eexpect = One
    /\ ememory = Memory_new
    /\ eresult = NotEvaluated
    /\ edepth = 0
    /\ edone = FALSE

\* ( <expression> op 1 )
WrapLeft(op) ==
    /\ ~edone
    /\ edepth < MaxDepth
    /\ etokens' = <<LParen>> \o etokens \o <<op, Number(One), RParen>>
    /\ eexpect' = (IF op = Plus THEN FAdd(eexpect, One) ELSE FSub(eexpect, One))
    /\ edepth' = edepth + 1
    /\ UNCHANGED <<ememory, eresult, edone>>
    /\ UNCHANGED svars

\* ( 2 - <expression> )
WrapRight ==
    /\ ~edone
    /\ edepth < MaxDepth
    /\ etokens' = <<LParen, Number(Two), Minus>> \o etokens \o <<RParen>>
    /\ eexpect' = FSub(Two, eexpect)
    /\ edepth' = edepth + 1
    /\ UNCHANGED <<ememory, eresult, edone>>
    /\ UNCHANGED svars

NextNest ==
    \/ \E op \in {Plus, Minus} : WrapLeft(op)
    \/ WrapRight
    \/ Evaluate

SpecNest == InitNest /\ [][NextNest]_vars

----------------------------------------------------------------------------
(* The standard reading of an expression, by splitting at the last         *)
(* operator of lowest precedence outside all parentheses.                  *)

RECURSIVE CountType(_, _, _)
CountType(tokens, n, type) ==
    IF n = 0 THEN 0
    ELSE CountType(tokens, n - 1, type) + (IF tokens[n].type = type THEN 1 ELSE 0)

\* parentheses open before position i
OpenBefore(tokens, i) ==
    CountType(tokens, i - 1, "LParen") - CountType(tokens, i - 1, "RParen")

TopLevelOps(tokens, types) ==
    { i \in 1..Len(tokens) : tokens[i].type \in types /\ OpenBefore(tokens, i) = 0 }

Max(S) == CHOOSE x \in S : \A y \in S : y <= x

Additive == {"Plus", "Minus"}
Multiplicative == {"Asterisk", "Slash"}

RECURSIVE WellFormed(_)
WellFormed(tokens) ==
    IF tokens = <<>> THEN FALSE
    ELSE IF TopLevelOps(tokens, Additive) # {}
    THEN LET i == Max(TopLevelOps(tokens, Additive)) IN
         /\ WellFormed(SubSeq(tokens, 1, i - 1))
         /\ WellFormed(SubSeq(tokens, i + 1, Len(tokens)))
    ELSE IF TopLevelOps(tokens, Multiplicative) # {}
    THEN LET i == Max(TopLevelOps(tokens, Multiplicative)) IN
         /\ WellFormed(SubSeq(tokens, 1, i - 1))
         /\ WellFormed(SubSeq(tokens, i + 1, Len(tokens)))
    ELSE IF Len(tokens) = 1 THEN tokens[1].type \in {"Number", "MemoryRef"}
    ELSE /\ tokens[1] = LParen
         /\ tokens[Len(tokens)] = RParen
         /\ WellFormed(SubSeq(tokens, 2, Len(tokens) - 1))

\* the value of a well-formed expression in the standard reading
RECURSIVE StandardValue(_, _)
StandardValue(tokens, memory) ==
    IF TopLevelOps(tokens, Additive) # {}
    THEN LET i == Max(TopLevelOps(tokens, Additive))
             l == StandardValue(SubSeq(tokens, 1, i - 1), memory)
             r == StandardValue(SubSeq(tokens, i + 1, Len(tokens)), memory)
         IN IF tokens[i].type = "Plus" THEN FAdd(l, r) ELSE FSub(l, r)
    ELSE IF TopLevelOps(tokens, Multiplicative) # {}
    THEN LET i == Max(TopLevelOps(tokens, Multiplicative))
             l == StandardValue(SubSeq(tokens, 1, i - 1), memory)
             r == StandardValue(SubSeq(tokens, i + 1, Len(tokens)), memory)
         IN IF tokens[i].type = "Asterisk" THEN FMul(l, r) ELSE FDiv(l, r)
    ELSE IF Len(tokens) = 1
    THEN (IF tokens[1].type = "Number" THEN tokens[1].value
          ELSE IF tokens[1].name \in DOMAIN memory THEN memory[tokens[1].name]
          ELSE Zero)
    ELSE StandardValue(SubSeq(tokens, 2, Len(tokens) - 1), memory)

\* the greatest number of parentheses open at once
NestingDepth(tokens) ==
    Max({0} \cup { OpenBefore(tokens, i) : i \in 1..(Len(tokens) + 1) })

\* C1: on every well-formed token sequence eval_expression returns the
\* value of the standard reading: * and / bind tighter than + and -,
\* equal precedence associates to the left, a parenthesised group is one
\* operand.
C1_StandardReading ==
    (edone /\ WellFormed(etokens)) =>
        /\ eresult.ok
        /\ eresult.value = StandardValue(etokens, ememory)

\* ( ( ( ( 1 + 1 ) + 1 ) + 1 ) + 1 )
NestExample ==
    <<LParen, LParen, LParen, LParen, Number(One), Plus, Number(One), RParen,
      Plus, Number(One), RParen, Plus, Number(One), RParen, Plus, Number(One),
      RParen>>

\* C7: an expression over numbers, + and - with parenthesised groups
\* nested up to depth MaxDepth evaluates, consuming every token, to the
\* value it was built to have, each group counting as one operand;
\* ( ( ( ( 1 + 1 ) + 1 ) + 1 ) + 1 ) gives 5.
C7_NestedParens ==
    edone =>
        /\ eresult.ok
        /\ eresult.index = Len(etokens)
        /\ eresult.value = eexpect
        /\ (edepth <= 2 => /\ WellFormed(etokens)
                           /\ NestingDepth(etokens) = edepth
                           /\ eresult.value = StandardValue(etokens, ememory))
        /\ (etokens = NestExample => eresult.value = Five)

\* a group nested to depth 10 has been evaluated, and so has the example
C7_Witness ==
    /\ edone
    /\ edepth >= 10
    /\ eresult.ok
    /\ eresult.index = Len(etokens)

C7_WitnessExample ==
    /\ edone
    /\ etokens = NestExample
    /\ eresult.value = Five

----------------------------------------------------------------------------
(* Claims about main *)

Split(l) == SplitOf[l].tokens
FirstType(l) == Split(l)[1].type
FirstName(l) == Split(l)[1].name
IsPlusLine(l) == l \in SplitOk /\ FirstType(l) = "MemoryPlus"
IsMinusLine(l) == l \in SplitOk /\ FirstType(l) = "MemoryMinus"
IsExpressionLine(l) == l \in SplitOk /\ ~IsPlusLine(l) /\ ~IsMinusLine(l)

\* this step is one pass through the loop body that reached its end
Processed == pc = "read" /\ pc' = "loop_end"

SlotValue(memory, n) == IF n \in DOMAIN memory THEN memory[n] ELSE Zero

L_mem == <<"m", "e", "m">>
L_memx == <<"m", "e", "m", "x">>
L_memx_plus == <<"m", "e", "m", "x", "+">>
L_mem_plus_1 == <<"m", "e", "m", " ", "+", " ", "1">>
N_x == <<"x">>

\* C2: a line whose first token is MemoryPlus(name) sets slot name to its
\* old value plus prev_result (a new slot to prev_result), a line whose
\* first token is MemoryMinus(name) to its old value minus prev_result (a
\* new slot to -prev_result); every other slot keeps its value.
C2_Accumulate ==
    [][ (Processed /\ (IsPlusLine(line') \/ IsMinusLine(line'))) =>
          LET n == FirstName(line') IN
          /\ DOMAIN memories' = DOMAIN memories \cup {n}
          /\ memories'[n] =
                IF IsPlusLine(line')
                THEN (IF n \in DOMAIN memories
                      THEN FAdd(memories[n], prev_result) ELSE prev_result)
                ELSE (IF n \in DOMAIN memories
                      THEN FSub(memories[n], prev_result) ELSE FNeg(prev_result))
          /\ \A m \in DOMAIN memories \ {n} : memories'[m] = memories[m]
      ]_vars

\* memx+ has added prev_result = 1 to slot x, which held 1
C2_Witness ==
    /\ pc = "loop_end"
    /\ line = L_memx_plus
    /\ prev_result = One
    /\ N_x \in DOMAIN memories
    /\ memories[N_x] = Two

\* C3: prev_result is 0.0 until an expression has been evaluated, becomes
\* the value of each expression line that evaluates, and is changed by
\* nothing else, in particular not by a mem<name>+ or mem<name>- line.
C3_PrevResult ==
    /\ [](nread = 0 => prev_result = Zero)
    /\ [][ IF Processed /\ IsExpressionLine(line')
           THEN /\ WellFormed(Split(line'))
                /\ prev_result' = StandardValue(Split(line'), memories)
           ELSE prev_result' = prev_result
       ]_vars

\* memx+ has run twice after the expression 1: slot x holds 2 and
\* prev_result is still 1
C3_Witness ==
    /\ pc = "loop_end"
    /\ IsPlusLine(line)
    /\ nread = 3
    /\ prev_result = One
    /\ SlotValue(memories, FirstName(line)) = Two

\* C4: a MemoryRef(name) operand evaluates to the value of slot name, to
\* 0.0 exactly when the slot was never set; the empty name is a slot like
\* any other, and "mem + 1" with that slot never set gives 1.
C4_MemoryRef ==
    (pc = "loop_end" /\ IsExpressionLine(line)) =>
        /\ \A n \in {<<>>, N_x} :
              /\ Split(line) = <<MemoryRef(n)>> =>
                    prev_result = SlotValue(memories, n)
              /\ Split(line) = <<MemoryRef(n), Plus, Number(One)>> =>
                    prev_result = FAdd(SlotValue(memories, n), One)
              /\ Split(line) = <<Number(One), Plus, MemoryRef(n)>> =>
                    prev_result = FAdd(One, SlotValue(memories, n))
        /\ (line = L_mem_plus_1 /\ <<>> \notin DOMAIN memories) =>
              prev_result = One

\* "mem + 1" has been evaluated with the empty-named slot never set
C4_Witness ==
    /\ pc = "loop_end"
    /\ line = L_mem_plus_1
    /\ <<>> \notin DOMAIN memories
    /\ N_x \in DOMAIN memories
    /\ prev_result = One

\* the empty-named slot, set to -1 by mem-, has been read by "mem"
C4_WitnessSet ==
    /\ pc = "loop_end"
    /\ line = L_mem
    /\ <<>> \in DOMAIN memories
    /\ prev_result = FNeg(One)

\* C5: a line that fails to parse or evaluate fails alone: the process is
\* not terminated by it and goes on to read the next line with memories
\* and prev_result as they were.  (A failure to read a line, which binds
\* no line, may end the process.)
C5_FailureIsPerLine == ~(pc = "panicked" /\ line # <<>>)

\* C6: memories changes only in a step that processes a line whose first
\* token is MemoryPlus or MemoryMinus; every other step, an expression
\* that evaluates or fails included, leaves all slots as they are.
C6_OnlyMutationWrites ==
    [][ (memories' # memories \/ DOMAIN memories' # DOMAIN memories) =>
          /\ pc = "read"
          /\ (IsPlusLine(line') \/ IsMinusLine(line'))
      ]_vars

\* the expression "memx" has been evaluated while slot x was never set
\* and another slot exists: no slot was created or changed
C6_Witness ==
    /\ pc = "loop_end"
    /\ line = L_memx
    /\ DOMAIN memories = {<<>>}
    /\ memories[<<>>] = FNeg(One)
    /\ prev_result = Zero

\* split_whitespace: the maximal runs of non-whitespace characters
RECURSIVE SplitWhitespace(_)
SplitWhitespace(text) ==
    IF text = <<>> THEN <<>>
    ELSE IF IsWhitespace(text[1]) THEN SplitWhitespace(Tail(text))
    ELSE LET stops == { k \in 1..Len(text) : IsWhitespace(text[k]) }
             n == IF stops = {} THEN Len(text)
                  ELSE (CHOOSE k \in stops : \A j \in stops : k <= j) - 1
         IN <<SubSeq(text, 1, n)>> \o SplitWhitespace(SubSeq(text, n + 1, Len(text)))

\* C8: tokenizing gives exactly one token per non-empty piece between runs
\* of whitespace; leading, trailing and repeated whitespace adds no token
\* and no failure.
C8_WhitespaceRuns ==
    (nread > 0 /\ line # <<>>) =>
        LET pieces == SplitWhitespace(line)
            parsed == [i \in 1..Len(pieces) |-> Token_parse(pieces[i])]
        IN (\A i \in 1..Len(pieces) : parsed[i].ok) =>
              /\ Token_split(line).ok
              /\ Token_split(line).tokens = [i \in 1..Len(pieces) |-> parsed[i].token]

\* C9: an empty line ends the session: the step that reads it leaves
\* memories and prev_result alone, and nothing changes afterwards.
C9_EmptyLineEnds ==
    [][ /\ (pc = "read" /\ nread' = nread + 1 /\ line' = <<>>) =>
              /\ pc' = "exited"
              /\ UNCHANGED <<memories, prev_result>>
        /\ pc = "exited" => UNCHANGED <<memories, prev_result, pc, line, nread, stdout>>
      ]_vars

\* the session has ended on an empty line after a result was stored
C9_Witness ==
    /\ pc = "exited"
    /\ nread = 3
    /\ prev_result = One
    /\ DOMAIN memories = {N_x}
    /\ stdout = Bye

SetMemory == <<"s", "e", "t", " ", "m", "e", "m", "o", "r", "y">>
Equal == <<" ", "e", "q", "u", "a", "l", " ">>

\* C10 as stated: an expression prints "<line> equal <result>" and a
\* mutation command prints "set memory<name> equal <value>".
C10_OutputForms ==
    pc = "loop_end" =>
        IF IsExpressionLine(line)
        THEN stdout = line \o Equal \o FmtF64(prev_result)
        ELSE stdout = SetMemory \o FirstName(line) \o Equal
                        \o FmtF64(memories[FirstName(line)])

\* C10 amended: whatever line the program prints a result for, it prints
\* "<line> equal <result>": the value of an expression, the new value of
\* the slot for a mutation command.
C10_OutputEcho ==
    pc = "loop_end" =>
        stdout = line \o Equal \o
                   FmtF64(IF IsExpressionLine(line) THEN prev_result
                          ELSE memories[FirstName(line)])

\* memx+ has printed "memx+ equal 1"
C10_Witness ==
    /\ pc = "loop_end"
    /\ line = L_memx_plus
    /\ stdout = <<"m", "e", "m", "x", "+", " ", "e", "q", "u", "a", "l", " ", "1">>

====
